---- MODULE Spec2Model ----
(***************************************************************************)
(* Model of ceasiompy/utils/ceasiompyutils.py: the working-directory       *)
(* scope (change_working_dir), the results-directory accessor              *)
(* (get_results_directory), the step runner (run_module), the tool locator *)
(* (get_install_path) and the external tool invoker (run_software).        *)
(*                                                                         *)
(* One Python thread is modelled: `stack` holds the frames of the scopes   *)
(* and run_module calls in progress, `exc` the exception in flight, and    *)
(* `last` the most recent event, as the caller observes it.  A workflow    *)
(* runs any number of steps; `step_state` is the state of one of them,  *)
(* the observed step, and the frames of its run_module call are marked.    *)
(* `threads` holds the scopes of two threads of the process, for the      *)
(* specification in which their statements interleave.                     *)
(***************************************************************************)
EXTENDS Integers, Sequences, FiniteSets, TLC

VARIABLES threads, cwd, dirs, files, stack, exc, last, step_state, firstRes, cpacs_out,
          installed, platform

vars == <<threads, cwd, dirs, files, stack, exc, last, step_state, firstRes, cpacs_out,
          installed, platform>>

\* ------------------------------------------------------------------ bounds
MaxDepth == 2
MaxIter == 2
MaxArgs == 2
MaxCpu == 2
MaxHostCpu == 8
MaxRounds == 2

\* ------------------------------------------------------------------ paths
\* A path is absolute or relative and has a sequence of components.
Abs(parts) == [abs |-> TRUE, parts |-> parts]
Rel(parts) == [abs |-> FALSE, parts |-> parts]

\* pathlib's Path(a, b): b replaces a when b is absolute, else it is appended.
PathJoin(a, b) == IF b.abs THEN b ELSE [abs |-> a.abs, parts |-> a.parts \o b.parts]

\* The file the operating system resolves path p to when the process is in c.
Locate(c, p) == IF p.abs THEN p.parts ELSE c \o p.parts

Parent(q) == SubSeq(q, 1, Len(q) - 1)
Ancestors(q) == {SubSeq(q, 1, k) : k \in 0..Len(q)}

\* The directories of the host before the program runs.
StartDir == <<"d">>
WorkDir == <<"d", "w">>
InitDirs == {<<>>, StartDir, WorkDir}

\* The working_dir / wkdir arguments callers pass.
Targets == {Abs(WorkDir), Rel(<<"w">>), Abs(<<"d", "nodir">>)}

NoPath == <<"<none>">>

\* The regular files: a set of [path, content].
FilePaths == {f.path : f \in files}
WriteFile(q, content) ==
    {f \in files : f.path # q} \cup {[path |-> q, content |-> content]}

\* ------------------------------------------------------------------ exceptions
\* EnvironmentError is OSError; these are its subclasses the calls raise.
IsEnvironmentError(e) ==
    e \in {"OSError", "FileNotFoundError", "FileExistsError", "IsADirectoryError"}

\* ------------------------------------------------------------------ change_working_dir
\* Mutant of Finally: the scope is left without a restoring chdir.
FinallyNothing(saved) == <<>>

\* The os.chdir calls of the finally clause, in order.
Finally(saved) == <<saved>>

\* The process directory after the finally clause ran from directory c.
RunFinally(c, saved) ==
    LET t == Finally(saved) IN IF t = <<>> THEN c ELSE t[Len(t)]

\* Mutant of EnterScope: the result of os.chdir is not looked at.
EnterScopeUnchecked(c, working_dir) ==
    [ok |-> TRUE, saved |-> c, cwd |-> Locate(c, working_dir), restores |-> 0,
     exc |-> "none"]

\* try: cwd = os.getcwd(); os.chdir(working_dir); yield.  A failing chdir
\* raises inside the try, so the finally clause runs before it propagates.
EnterScope(c, working_dir) ==
    LET target == Locate(c, working_dir)
        ok == target \in dirs
    IN [ok |-> ok,
        saved |-> c,
        cwd |-> IF ok THEN target ELSE RunFinally(c, c),
        restores |-> IF ok THEN 0 ELSE Len(Finally(c)),
        exc |-> IF ok THEN "none" ELSE "FileNotFoundError"]

\* finally: os.chdir(cwd), when the with block is left.
ExitScope(c, saved) ==
    [cwd |-> RunFinally(c, saved), restores |-> Len(Finally(saved))]

\* Mutant of Reraise: the error of the with block is caught and dropped.
Swallow(error) == "none"

\* The exception in flight once a with block was left by error: the try has a
\* finally clause and no except clause, and run_module has no handler around
\* its with block, so the error goes on as it is.
Reraise(error) == error

\* ------------------------------------------------------------------ frames
Frame(fn, pc, saved, step) ==
    [fn |-> fn, pc |-> pc, saved |-> saved, step |-> step]

Top == stack[Len(stack)]
Pop == SubSeq(stack, 1, Len(stack) - 1)

\* Calling code runs: the test or workflow driver, the body of a with block,
\* or a module's main().
CanCall == exc = "none" /\ (IF stack = <<>> THEN TRUE ELSE Top.pc \in {"body", "main"})

\* ------------------------------------------------------------------ modules
ModuleNames == {"Optimisation", "PyAVL", "Ghost"}

\* The names the results-directory accessor is called with.
AccessorNames == {"PyAVL", "Ghost"}

\* get_module_list(only_active=False)
Registry == {"Optimisation", "PyAVL"}

\* specs.RESULTS_DIR of a module's __specs__
ResultsDirSpec(module_name) == Rel(<<"Results", module_name>>)

\* Mutant of NeedsMkdir: mkdir is called without looking.
NeedsMkdirAlways(results_dir) == TRUE

\* if not results_dir.is_dir()
NeedsMkdir(results_dir) == results_dir \notin dirs

\* results_dir.mkdir(parents=True): fails when the path exists.
MkdirParents(results_dir) ==
    IF results_dir \in dirs \/ results_dir \in FilePaths
    THEN [exc |-> "FileExistsError", dirs |-> dirs]
    ELSE [exc |-> "none", dirs |-> dirs \cup Ancestors(results_dir)]

\* The whole of get_results_directory, called from process directory c.
ResultsDirectory(c, module_name) ==
    IF module_name \notin Registry
    THEN [exc |-> "ValueError", path |-> NoPath, dirs |-> dirs]
    ELSE LET results_dir == PathJoin(Abs(c), ResultsDirSpec(module_name)).parts
             made == MkdirParents(results_dir)
         IN IF NeedsMkdir(results_dir)
            THEN [exc |-> made.exc,
                  path |-> IF made.exc = "none" THEN results_dir ELSE NoPath,
                  dirs |-> made.dirs]
            ELSE [exc |-> "none", path |-> results_dir, dirs |-> dirs]

\* firstRes[m] is what the first call for module m returned, and the process
\* directory it was made in.
NoCall == [path |-> NoPath, at |-> NoPath]

get_results_directory(module_name) ==
    /\ CanCall
    /\ LET r == ResultsDirectory(cwd, module_name) IN
       /\ dirs' = r.dirs
       /\ exc' = r.exc
       /\ last' = [op |-> "get_results_directory", name |-> module_name,
                   exc |-> r.exc, path |-> r.path, at |-> cwd,
                   first |-> IF module_name \in Registry
                             THEN firstRes[module_name] ELSE NoCall,
                   created |-> r.dirs \ dirs]
       /\ firstRes' = IF r.exc = "none" /\ firstRes[module_name] = NoCall
                      THEN [firstRes EXCEPT ![module_name] =
                               [path |-> r.path, at |-> cwd]]
                      ELSE firstRes
    /\ UNCHANGED <<threads, cwd, files, stack, step_state, cpacs_out, installed, platform>>

\* ------------------------------------------------------------------ with change_working_dir(...)
change_working_dir(working_dir) ==
    /\ CanCall
    /\ Len(stack) < MaxDepth
    /\ LET e == EnterScope(cwd, working_dir) IN
       /\ cwd' = e.cwd
       /\ exc' = e.exc
       /\ stack' = IF e.ok
                   THEN Append(stack, Frame("scope", "body", e.saved, FALSE))
                   ELSE stack
       /\ last' = [op |-> "change_working_dir",
                   how |-> IF e.ok THEN "entered" ELSE "enter_failed",
                   exists |-> Locate(cwd, working_dir) \in dirs,
                   D |-> e.saved, restores |-> e.restores, exc |-> e.exc,
                   body |-> e.ok]
    /\ UNCHANGED <<threads, dirs, files, step_state, firstRes, cpacs_out, installed, platform>>

\* The with block of a scope ends: normally, or by raising an error.
LeaveScope(how, error) ==
    /\ CanCall
    /\ stack # <<>>
    /\ Top.fn = "scope"
    /\ LET x == ExitScope(cwd, Top.saved) IN
       /\ cwd' = x.cwd
       /\ last' = [op |-> "change_working_dir", how |-> how, exists |-> TRUE,
                   D |-> Top.saved, restores |-> x.restores, exc |-> error,
                   body |-> TRUE]
    /\ exc' = Reraise(error)
    /\ stack' = Pop
    /\ UNCHANGED <<threads, dirs, files, step_state, firstRes, cpacs_out, installed, platform>>

ScopeReturns == LeaveScope("returned", "none")
ScopeRaises == LeaveScope("raised", "BodyError")

\* ------------------------------------------------------------------ run_module
\* An entry of module.module_dir: its name is stem + suffix, and dunder says
\* whether the name starts with "__".
DirEntry(stem, suffix, dunder) == [stem |-> stem, suffix |-> suffix, dunder |-> dunder]

\* What module.module_dir.iterdir() yields, in the order it yields it.
Listings ==
    { <<DirEntry("__init__", ".py", TRUE), DirEntry("mod", ".py", FALSE),
        DirEntry("README", ".md", FALSE)>>,
      <<DirEntry("__init__", ".py", TRUE), DirEntry("__specs__", ".py", TRUE)>>,
      <<DirEntry("a", ".py", FALSE), DirEntry("b", ".py", FALSE)>>,
      <<DirEntry("b", ".py", FALSE), DirEntry("a", ".py", FALSE)>> }

\* The listing of a module directory that follows the convention.
Conventional ==
    { <<DirEntry("__init__", ".py", TRUE), DirEntry("mod", ".py", FALSE),
        DirEntry("README", ".md", FALSE)>> }

Unbound == "<unbound>"

\* if file.name.endswith(".py") and not file.name.startswith("__")
IsCandidate(file) == file.suffix = ".py" /\ ~file.dunder

Candidates(listing) == SelectSeq(listing, IsCandidate)
CandidateNames(listing) ==
    {Candidates(listing)[i].stem : i \in 1..Len(Candidates(listing))}

\* The for loop: python_file is assigned at every match, so the last one stays;
\* without a match the name is never bound.
PythonFile(listing) ==
    LET c == Candidates(listing) IN IF c = <<>> THEN Unbound ELSE c[Len(c)].stem

\* Mutants of SkipRule: the first repetition still runs; every module is skipped.
SkipRuleLate(name, iteration) == name = "Optimisation" /\ iteration > 1
SkipRuleAnyModule(name, iteration) == iteration > 0

\* if module.name == "Optimisation" and iteration > 0
SkipRule(name, iteration) == name = "Optimisation" /\ iteration > 0

\* The body of run_module after its log banner, from process directory c, up to
\* the call of my_module.main: what it did (how), the exception it raises, the
\* entry point it resolved, and the scope it entered.
RunModule(c, name, wkdir, iteration, listing, importable) ==
    LET python_file == PythonFile(listing)
        e == EnterScope(c, wkdir)
        base == [how |-> "skipped", exc |-> "none", entry |-> Unbound,
                 cands |-> {}, resolved |-> FALSE,
                 cwd |-> c, saved |-> c, restores |-> 0]
        looked == [base EXCEPT !.cands = CandidateNames(listing),
                               !.resolved = TRUE, !.entry = python_file]
    IN IF SkipRule(name, iteration) THEN base
       ELSE IF python_file = Unbound
       THEN [looked EXCEPT !.how = "resolve_failed", !.exc = "UnboundLocalError"]
       ELSE IF ~importable
       THEN [looked EXCEPT !.how = "resolve_failed", !.exc = "ModuleNotFoundError"]
       ELSE [looked EXCEPT !.how = IF e.ok THEN "invoked" ELSE "enter_failed",
                           !.exc = e.exc, !.cwd = e.cwd,
                           !.saved = e.saved, !.restores = e.restores]

\* The state a workflow step records for what its run_module call did.
StepStateAfter(how) ==
    CASE how \in {"called", "invoked"} -> "Running"
      [] how = "returned" -> "Completed"
      [] how = "skipped" -> "Skipped"
      [] OTHER -> "Failed"

\* run_module is called (lines 119-125, the log banner): its step is running.
\* The call is that of the observed step, or of any other step.
run_module_call(is_observed) ==
    /\ CanCall
    /\ Len(stack) < MaxDepth
    /\ is_observed => step_state = "Pending"
    /\ stack' = Append(stack, Frame("run_module", "start", cwd, is_observed))
    /\ step_state' = IF is_observed THEN StepStateAfter("called") ELSE step_state
    /\ last' = [op |-> "run_module", how |-> "called", step |-> is_observed]
    /\ UNCHANGED <<threads, cwd, dirs, files, exc, firstRes, cpacs_out, installed, platform>>

\* The rest of run_module up to the call of main (lines 127-140), for the
\* module, wkdir and iteration of the call, the listing of module.module_dir
\* and whether the import of the entry point succeeds.
run_module_body(name, wkdir, iteration, listing, importable) ==
    /\ exc = "none"
    /\ stack # <<>>
    /\ Top.fn = "run_module" /\ Top.pc = "start"
    /\ LET r == RunModule(cwd, name, wkdir, iteration, listing, importable) IN
       /\ cwd' = r.cwd
       /\ exc' = r.exc
       /\ stack' = IF r.how = "invoked"
                   THEN Append(Pop, Frame("run_module", "main", r.saved, Top.step))
                   ELSE Pop
       /\ step_state' = IF Top.step THEN StepStateAfter(r.how) ELSE step_state
       /\ last' = [op |-> "run_module", how |-> r.how, step |-> Top.step,
                   name |-> name, iteration |-> iteration,
                   entry |-> r.entry, cands |-> r.cands, resolved |-> r.resolved,
                   exists |-> r.how \in {"invoked", "enter_failed"}
                              => Locate(cwd, wkdir) \in dirs,
                   D |-> r.saved, restores |-> r.restores, exc |-> r.exc,
                   body |-> r.how = "invoked",
                   before |-> [cwd |-> cwd, out |-> cpacs_out]]
    /\ UNCHANGED <<threads, dirs, files, firstRes, cpacs_out, installed, platform>>

\* main(cpacs_in, cpacs_out) of the observed step produces the step's output
\* document; cpacs_out is "prior" while the document is as it was before the
\* step.  (Every step has its own output document.)
MainWrites ==
    /\ CanCall
    /\ stack # <<>>
    /\ Top.fn = "run_module" /\ Top.step
    /\ cpacs_out = "prior"
    /\ cpacs_out' = "produced"
    /\ last' = [op |-> "main", how |-> "wrote"]
    /\ UNCHANGED <<threads, cwd, dirs, files, stack, exc, step_state, firstRes,
                   installed, platform>>

\* main ends, normally or by raising: the with block of run_module is left.
LeaveMain(how, error) ==
    /\ CanCall
    /\ stack # <<>>
    /\ Top.fn = "run_module"
    /\ LET x == ExitScope(cwd, Top.saved) IN
       /\ cwd' = x.cwd
       /\ last' = [op |-> "run_module", how |-> how, step |-> Top.step,
                   exists |-> TRUE, D |-> Top.saved, restores |-> x.restores,
                   exc |-> error, body |-> TRUE]
    /\ exc' = Reraise(error)
    /\ step_state' = IF Top.step THEN StepStateAfter(how) ELSE step_state
    /\ stack' = Pop
    /\ UNCHANGED <<threads, dirs, files, firstRes, cpacs_out, installed, platform>>

MainReturns == LeaveMain("returned", "none")
MainRaises == LeaveMain("raised", "MainError")

\* An exception raised by a nested call leaves the enclosing with block: that
\* of a scope, or that of run_module around main.
Propagate ==
    /\ exc # "none"
    /\ stack # <<>>
    /\ LET x == ExitScope(cwd, Top.saved) IN
       /\ cwd' = x.cwd
       /\ last' = [op |-> IF Top.fn = "scope" THEN "change_working_dir" ELSE "run_module",
                   how |-> "raised", step |-> Top.step, exists |-> TRUE,
                   D |-> Top.saved, restores |-> x.restores, exc |-> exc,
                   body |-> TRUE]
    /\ step_state' = IF Top.fn = "run_module" /\ Top.step
                     THEN StepStateAfter("raised") ELSE step_state
    /\ exc' = Reraise(exc)
    /\ stack' = Pop
    /\ UNCHANGED <<threads, dirs, files, firstRes, cpacs_out, installed, platform>>

\* ------------------------------------------------------------------ get_install_path
\* The executables the host may have on its search path.
Tools == {"echo", "sumo", "mpirun", "xvfb-run"}
Platforms == {"linux", "darwin", "win32"}

\* The elements of a command line: a Path, a string, str(int(n)), or None.
PathTok(name) == [kind |-> "path", s |-> name, n |-> 0]
StrTok(s) == [kind |-> "str", s |-> s, n |-> 0]
NumTok(n) == [kind |-> "num", s |-> "", n |-> n]
NoneTok == [kind |-> "None", s |-> "", n |-> 0]

\* shutil.which(software_name) on a host whose search path holds onpath.
Which(software_name, onpath) ==
    IF software_name \in onpath THEN PathTok(software_name) ELSE NoneTok

\* Mutant of InstallPath: a missing tool is an error in both modes.
InstallPathStrict(software_name, raise_error, onpath) ==
    IF software_name \in onpath
    THEN [ret |-> PathTok(software_name), exc |-> "none", about |-> "", log |-> "info"]
    ELSE [ret |-> NoneTok, exc |-> "SoftwareNotInstalled",
          about |-> software_name, log |-> "warning"]

\* get_install_path: the value returned, the exception raised and the tool
\* its message names, and the log record emitted.
InstallPath(software_name, raise_error, onpath) ==
    LET install_path == Which(software_name, onpath) IN
    IF install_path # NoneTok
    THEN [ret |-> install_path, exc |-> "none", about |-> "", log |-> "info"]
    ELSE IF raise_error
    THEN [ret |-> NoneTok, exc |-> "SoftwareNotInstalled",
          about |-> software_name, log |-> "warning"]
    ELSE [ret |-> NoneTok, exc |-> "none", about |-> "", log |-> "warning"]

get_install_path(software_name, raise_error) ==
    /\ CanCall
    /\ LET r == InstallPath(software_name, raise_error, installed) IN
       /\ exc' = r.exc
       /\ last' = [op |-> "get_install_path", name |-> software_name,
                   raise_error |-> raise_error, ret |-> r.ret, exc |-> r.exc,
                   about |-> r.about, log |-> r.log,
                   onpath |-> software_name \in installed,
                   prev |-> IF last.op = "get_install_path"
                            THEN IF last.name = software_name
                                 THEN last.ret.kind ELSE "other"
                            ELSE "other"]
    /\ UNCHANGED <<threads, cwd, dirs, files, stack, step_state, firstRes, cpacs_out,
                   installed, platform>>

\* The host's search path changes between calls.
PathChanges(tool) ==
    /\ CanCall
    /\ installed' = IF tool \in installed THEN installed \ {tool}
                    ELSE installed \cup {tool}
    /\ UNCHANGED <<threads, cwd, dirs, files, stack, exc, last, step_state, firstRes,
                   cpacs_out, platform>>

\* ------------------------------------------------------------------ run_software
SoftwareNames == {"echo", "sumo"}

RECURSIVE SeqsUpTo(_, _)
SeqsUpTo(S, n) ==
    IF n = 0 THEN {<<>>}
    ELSE LET shorter == SeqsUpTo(S, n - 1)
         IN shorter \cup {Append(q, x) : q \in shorter, x \in S}

\* The argument lists callers pass.
ArgLists == SeqsUpTo({StrTok("a"), StrTok("b")}, MaxArgs)

\* logfile = Path(wkdir, f"logfile_{software_name}.log")
Logfile(software_name, wkdir) ==
    PathJoin(wkdir, Rel(<<"logfile_" \o software_name \o ".log">>))

\* Mutant of MpiPrefix: the launcher is used without checking it was found.
MpiPrefixUnchecked(with_mpi, nb_cpu, onpath) ==
    IF with_mpi
    THEN <<Which("mpirun", onpath), StrTok("-np"), NumTok(nb_cpu)>>
    ELSE <<>>

\* The MPI part of the command line (lines 188-191).
MpiPrefix(with_mpi, nb_cpu, onpath) ==
    LET mpi_install_path == InstallPath("mpirun", FALSE, onpath).ret IN
    IF with_mpi /\ mpi_install_path # NoneTok
    THEN <<mpi_install_path, StrTok("-np"), NumTok(nb_cpu)>>
    ELSE <<>>

\* Mutant of UsesXvfb: the platform is not looked at.
UsesXvfbAnyPlatform(software_name, plat) ==
    software_name \in {"sumo", "dwfsumo"}

\* if software_name in ["sumo", "dwfsumo"] and sys.platform == "linux"
UsesXvfb(software_name, plat) ==
    software_name \in {"sumo", "dwfsumo"} /\ plat = "linux"

\* command_line as run_software assembles it (lines 185-198).
CommandLine(software_name, arguments, with_mpi, nb_cpu, onpath, plat) ==
    LET install_path == InstallPath(software_name, FALSE, onpath).ret
        line == MpiPrefix(with_mpi, nb_cpu, onpath) \o <<install_path>> \o arguments
    IN IF UsesXvfb(software_name, plat) THEN <<StrTok("xvfb-run")>> \o line ELSE line

\* subprocess.call(command_line, stdout=logfile): a None in the argument list
\* is a TypeError, a program that is not found a FileNotFoundError; the exit
\* code of a child that ran is not looked at.
Exec(command_line, onpath) ==
    IF \E i \in 1..Len(command_line) : command_line[i] = NoneTok
    THEN "TypeError"
    ELSE IF command_line[1].kind = "str" /\ command_line[1].s \notin onpath
    THEN "FileNotFoundError"
    ELSE "none"

\* open(logfile, "w") when the process is in directory c.
CanOpen(c, logfile) ==
    LET q == Locate(c, logfile) IN Parent(q) \in dirs /\ q \notin dirs

\* The whole of run_software, called from process directory c.
RunSoftware(c, software_name, arguments, wkdir, with_mpi, nb_cpu) ==
    LET logfile == Logfile(software_name, wkdir)
        command_line == CommandLine(software_name, arguments, with_mpi, nb_cpu,
                                    installed, platform)
        e == EnterScope(c, wkdir)
        x == ExitScope(e.cwd, e.saved)
        q == Locate(e.cwd, logfile)
        status == Exec(command_line, installed)
    IN IF ~e.ok
       THEN [how |-> "enter_failed", exc |-> e.exc, files |-> files,
             opened |-> NoPath, cwd |-> e.cwd, saved |-> e.saved,
             restores |-> e.restores]
       ELSE IF ~CanOpen(e.cwd, logfile)
       THEN [how |-> "raised", exc |-> "FileNotFoundError", files |-> files,
             opened |-> NoPath, cwd |-> x.cwd, saved |-> e.saved,
             restores |-> x.restores]
       ELSE [how |-> IF status = "none" THEN "returned" ELSE "raised",
             exc |-> status,
             files |-> WriteFile(q, IF status = "none" THEN "stdout" ELSE ""),
             opened |-> q, cwd |-> x.cwd, saved |-> e.saved,
             restores |-> x.restores]

run_software(software_name, arguments, wkdir, with_mpi, nb_cpu) ==
    /\ CanCall
    /\ LET r == RunSoftware(cwd, software_name, arguments, wkdir, with_mpi, nb_cpu) IN
       /\ cwd' = r.cwd
       /\ exc' = r.exc
       /\ files' = r.files
       /\ last' = [op |-> "run_software", how |-> r.how, name |-> software_name,
                   wkdir |-> wkdir,
                   exists |-> Locate(cwd, wkdir) \in dirs,
                   D |-> r.saved, restores |-> r.restores, exc |-> r.exc,
                   body |-> r.how # "enter_failed",
                   opened |-> r.opened,
                   created |-> {f.path : f \in r.files} \ FilePaths,
                   found |-> software_name \in installed,
                   arguments |-> arguments,
                   cmd |-> CommandLine(software_name, arguments, with_mpi, nb_cpu,
                                       installed, platform)]
    /\ UNCHANGED <<threads, dirs, stack, step_state, firstRes, cpacs_out, installed, platform>>

\* The command line of a run_software call, as its log line shows it
\* (lines 185-204).
command_line(software_name, arguments, with_mpi, nb_cpu) ==
    /\ CanCall
    /\ last' = [op |-> "command_line", name |-> software_name,
                arguments |-> arguments, with_mpi |-> with_mpi, nb_cpu |-> nb_cpu,
                tool |-> InstallPath(software_name, FALSE, installed).ret,
                mpi |-> "mpirun" \in installed, platform |-> platform,
                cmd |-> CommandLine(software_name, arguments, with_mpi, nb_cpu,
                                    installed, platform)]
    /\ UNCHANGED <<threads, cwd, dirs, files, stack, exc, step_state, firstRes, cpacs_out,
                   installed, platform>>

\* ------------------------------------------------------------------ get_reasonable_nb_cpu
\* What os.cpu_count() may return: None, or the number of CPUs of the host.
HostCpuCounts == {NoneTok} \cup {NumTok(n) : n \in 1..MaxHostCpu}

\* Mutant of Ceil4: the quotient is rounded down.
Floor4(n) == n \div 4

\* math.ceil(n / 4)
Ceil4(n) == IF n % 4 = 0 THEN n \div 4 ELSE (n \div 4) + 1

\* The value get_reasonable_nb_cpu returns when os.cpu_count() is cpu_count.
ReasonableNbCpu(cpu_count) ==
    IF cpu_count = NoneTok THEN 1 ELSE Ceil4(cpu_count.n)

\* One call: os.cpu_count() is read anew, nothing is kept between calls.
get_reasonable_nb_cpu(cpu_count) ==
    /\ CanCall
    /\ last' = [op |-> "get_reasonable_nb_cpu", cpu_count |-> cpu_count,
                ret |-> ReasonableNbCpu(cpu_count),
                prev |-> IF last.op = "get_reasonable_nb_cpu"
                         THEN last.cpu_count ELSE cpu_count]
    /\ UNCHANGED <<threads, cwd, dirs, files, stack, exc, step_state, firstRes, cpacs_out,
                   installed, platform>>

\* The calling code handles the exception (try/except, or the test driver).
Catch ==
    /\ exc # "none"
    /\ exc' = "none"
    /\ UNCHANGED <<threads, cwd, dirs, files, stack, last, step_state, firstRes, cpacs_out,
                   installed, platform>>

\* ------------------------------------------------------------------ threads
\* Steps run by threads of one process.  Every thread has its own generator
\* frame of change_working_dir (its local cwd, line 65); the working directory
\* of the process is shared.  In "sequential" mode the steps run one after the
\* other or nested, as calls of one thread do; in "concurrent" mode the
\* statements of the scopes interleave freely.
Threads == {"t1", "t2"}
Modes == {"sequential", "concurrent"}

\* The working directory of the step a thread runs.
ThreadDir(t) == <<"d", t>>

NoThreads(mode) ==
    [mode |-> mode,
     pc |-> [t \in Threads |-> "idle"],
     saved |-> [t \in Threads |-> NoPath],
     ran_in |-> [t \in Threads |-> NoPath],
     round |-> [t \in Threads |-> 0],
     active |-> <<>>,
     base |-> NoPath]

\* The scope a statement belongs to is the innermost one in progress.
Innermost == threads.active[Len(threads.active)]

MayStart(t) ==
    /\ threads.pc[t] = "idle"
    /\ threads.round[t] < MaxRounds
    /\ IF threads.mode = "concurrent" \/ threads.active = <<>> THEN TRUE
       ELSE threads.pc[Innermost] = "body"

MayStep(t) ==
    IF threads.mode = "concurrent" THEN TRUE
    ELSE IF threads.active = <<>> THEN FALSE ELSE Innermost = t

\* cwd = os.getcwd()  (line 65)
thread_getcwd(t) ==
    /\ MayStart(t)
    /\ threads' = [threads EXCEPT !.pc[t] = "chdir", !.saved[t] = cwd,
                                  !.ran_in[t] = NoPath,
                                  !.round[t] = @ + 1,
                                  !.active = Append(@, t),
                                  !.base = IF threads.active = <<>> THEN cwd ELSE @]
    /\ UNCHANGED <<cwd, dirs, files, stack, exc, last, step_state, firstRes,
                   cpacs_out, installed, platform>>

\* os.chdir(working_dir)  (line 66)
thread_chdir(t) ==
    /\ MayStep(t)
    /\ threads.pc[t] = "chdir"
    /\ Locate(cwd, Abs(ThreadDir(t))) \in dirs
    /\ cwd' = Locate(cwd, Abs(ThreadDir(t)))
    /\ threads' = [threads EXCEPT !.pc[t] = "body"]
    /\ UNCHANGED <<dirs, files, stack, exc, last, step_state, firstRes,
                   cpacs_out, installed, platform>>

\* yield: the enclosed operation runs (main of the module, or open(logfile)
\* and subprocess.call, lines 207-208), in the directory the process is in.
thread_body(t) ==
    /\ MayStep(t)
    /\ threads.pc[t] = "body"
    /\ threads' = [threads EXCEPT !.pc[t] = "finally", !.ran_in[t] = cwd]
    /\ UNCHANGED <<cwd, dirs, files, stack, exc, last, step_state, firstRes,
                   cpacs_out, installed, platform>>

\* finally: os.chdir(cwd)  (lines 69-70)
thread_finally(t) ==
    /\ MayStep(t)
    /\ threads.pc[t] = "finally"
    /\ cwd' = RunFinally(cwd, threads.saved[t])
    /\ threads' = [threads EXCEPT !.pc[t] = "idle",
                                  !.active = SelectSeq(@, LAMBDA u : u # t)]
    /\ UNCHANGED <<dirs, files, stack, exc, last, step_state, firstRes,
                   cpacs_out, installed, platform>>

\* ------------------------------------------------------------------ specification
Init ==
    /\ threads = NoThreads("sequential")
    /\ cwd = StartDir
    /\ dirs = InitDirs
    /\ files = {}
    /\ stack = <<>>
    /\ exc = "none"
    /\ last = [op |-> "none"]
    /\ step_state = "Pending"
    /\ firstRes = [m \in Registry |-> NoCall]
    /\ cpacs_out = "prior"
    /\ installed = {"echo", "mpirun"}
    /\ platform = "linux"

Next ==
    \/ \E t \in Targets : change_working_dir(t)
    \/ ScopeReturns
    \/ ScopeRaises
    \/ Propagate
    \/ Catch
    \/ \E m \in AccessorNames : get_results_directory(m)
    \/ \E o \in BOOLEAN : run_module_call(o)
    \/ \E m \in Registry, t \in Targets, i \in 0..1, l \in Conventional :
          run_module_body(m, t, i, l, TRUE)
    \/ MainWrites
    \/ MainReturns
    \/ MainRaises
    \/ \E n \in SoftwareNames, t \in Targets, m \in BOOLEAN :
          run_software(n, <<StrTok("a")>>, t, m, MaxCpu)

Spec == Init /\ [][Next]_vars

\* The step runner on every module, iteration and module directory, with the
\* scopes and the other steps that run around and inside a step.
NextSteps ==
    \/ \E t \in Targets : change_working_dir(t)
    \/ ScopeReturns
    \/ ScopeRaises
    \/ Propagate
    \/ Catch
    \/ \E m \in AccessorNames : get_results_directory(m)
    \/ \E o \in BOOLEAN : run_module_call(o)
    \/ \E m \in ModuleNames, t \in Targets, i \in 0..MaxIter, l \in Listings,
          b \in BOOLEAN : run_module_body(m, t, i, l, b)
    \/ MainWrites
    \/ MainReturns
    \/ MainRaises

SpecSteps == Init /\ [][NextSteps]_vars

\* The tool locator and the command line of run_software, on every host: the
\* search path and the platform are drawn freely, and the search path changes.
InitTool ==
    /\ threads = NoThreads("sequential")
    /\ cwd = StartDir
    /\ dirs = InitDirs
    /\ files = {}
    /\ stack = <<>>
    /\ exc = "none"
    /\ last = [op |-> "none"]
    /\ step_state = "Pending"
    /\ firstRes = [m \in Registry |-> NoCall]
    /\ cpacs_out = "prior"
    /\ installed \in SUBSET Tools
    /\ platform \in Platforms

NextTool ==
    \/ \E n \in Tools \cup {"dwfsumo"}, r \in BOOLEAN : get_install_path(n, r)
    \/ \E t \in Tools : PathChanges(t)
    \/ \E n \in SoftwareNames \cup {"dwfsumo"}, a \in ArgLists, m \in BOOLEAN,
          c \in 1..MaxCpu : command_line(n, a, m, c)
    \/ \E n \in HostCpuCounts : get_reasonable_nb_cpu(n)
    \/ Catch

SpecTool == InitTool /\ [][NextTool]_vars

\* Two steps of one process, each in its own working-directory scope, run
\* sequentially (nested or not) or concurrently.
InitThreads ==
    /\ threads \in {NoThreads(m) : m \in Modes}
    /\ cwd = StartDir
    /\ dirs = InitDirs \cup {ThreadDir(t) : t \in Threads}
    /\ files = {}
    /\ stack = <<>>
    /\ exc = "none"
    /\ last = [op |-> "none"]
    /\ step_state = "Pending"
    /\ firstRes = [m \in Registry |-> NoCall]
    /\ cpacs_out = "prior"
    /\ installed = {"echo", "mpirun"}
    /\ platform = "linux"

NextThreads ==
    \/ \E t \in Threads : thread_getcwd(t)
    \/ \E t \in Threads : thread_chdir(t)
    \/ \E t \in Threads : thread_body(t)
    \/ \E t \in Threads : thread_finally(t)

SpecThreads == InitThreads /\ [][NextThreads]_vars

\* ================================================================== claims
ScopedOps == {"change_working_dir", "run_module", "run_software"}

\* The last event is the exit of a scope whose with block ran.
ScopeLeft == last.op \in ScopedOps /\ last.how \in {"returned", "raised"}

\* The last event is a scope whose os.chdir(working_dir) failed.
EnterFailed == last.op \in ScopedOps /\ last.how = "enter_failed"

\* C1: when a scope entered from directory D is left, by return or by an
\* error of the enclosed operation, the process is in D again and the scope
\* performed exactly one restoring chdir.
C1_ScopeRestoresOnce ==
    ScopeLeft => (cwd = last.D /\ last.restores = 1 /\ last.exists)

C1_Witness ==
    /\ last.op = "change_working_dir" /\ last.how = "raised"
    /\ exc = "BodyError" /\ last.D = StartDir /\ cwd = StartDir
    /\ last.restores = 1

\* C2 as stated: when the chdir into the target fails, an EnvironmentError
\* propagates, the enclosed operation is not run, and no restoring chdir is
\* attempted.
C2_NoRestoreAttempted ==
    EnterFailed =>
        (IsEnvironmentError(last.exc) /\ ~last.body /\ last.restores = 0)

\* C2 as amended: a scope is entered exactly when its target directory
\* exists; when the chdir fails an EnvironmentError propagates, the enclosed
\* operation is not run, and the finally clause still performs one chdir, to
\* the starting directory, where the process stays.
C2_EnterFailureRestores ==
    /\ EnterFailed =>
          /\ IsEnvironmentError(last.exc) /\ ~last.body /\ ~last.exists
          /\ last.restores = 1 /\ cwd = last.D
    /\ (last.op \in ScopedOps /\ last.how \in {"entered", "invoked"}) =>
          (last.exists /\ last.body /\ cwd \in dirs)
    /\ (last.op = "run_software" /\ last.body) => last.exists

C2_Witness ==
    /\ EnterFailed /\ last.op = "change_working_dir"
    /\ exc = "FileNotFoundError" /\ last.restores = 1 /\ cwd = last.D

\* The last event is run_module deciding what to do with its step.
Dispatched ==
    /\ last.op = "run_module"
    /\ last.how \in {"skipped", "resolve_failed", "enter_failed", "invoked"}

\* C3: the optimisation module at an iteration >= 1 is skipped (no entry point
\* resolved or invoked, working directory and output document untouched); any
\* other step is not skipped: its entry point is invoked unless resolving it or
\* entering the working directory raised.  A skipped step's output document
\* stays as it was.
C3_OptimisationSkipRule ==
    /\ Dispatched =>
          IF last.name = "Optimisation" /\ last.iteration >= 1
          THEN /\ last.how = "skipped" /\ ~last.resolved /\ last.entry = Unbound
               /\ ~last.body /\ last.exc = "none" /\ last.restores = 0
               /\ cwd = last.before.cwd /\ cpacs_out = last.before.out
          ELSE /\ last.how # "skipped" /\ last.resolved
               /\ (last.how = "invoked" \/ last.exc # "none")
               /\ (last.how = "invoked" => last.entry # Unbound)
    /\ step_state = "Skipped" => cpacs_out = "prior"

C3_Witness ==
    /\ Dispatched /\ last.name = "Optimisation" /\ last.iteration = MaxIter
    /\ last.how = "skipped" /\ last.step /\ step_state = "Skipped"
    /\ stack # <<>>

Terminal == {"Completed", "Skipped", "Failed"}

NothingElseFailed ==
    last.exc \notin {"UnboundLocalError", "ModuleNotFoundError", "FileNotFoundError"}

\* C5 as stated: an unregistered module name always fails with ValueError,
\* in the results-directory accessor (no directory created) and in run_module
\* (no entry point invoked).  For run_module the calls that another error ends
\* first are left aside, so that what refutes it is a call that raises nothing.
C5_UnregisteredFails ==
    /\ (last.op = "get_results_directory" /\ last.name \notin Registry) =>
          (last.exc = "ValueError" /\ last.created = {})
    /\ (Dispatched /\ last.name \notin Registry /\ NothingElseFailed) =>
          (last.exc = "ValueError" /\ last.how # "invoked")

\* C6 as stated: a module directory with exactly one non-private source file
\* resolves to that file; with none or more than one the resolution fails
\* with an error, and no entry point is invoked.
C6_SingleEntryPoint ==
    (Dispatched /\ last.resolved) =>
        IF Cardinality(last.cands) = 1
        THEN last.entry \in last.cands
        ELSE last.exc # "none" /\ last.how # "invoked"

\* C7 as stated: every call of the accessor for a registered module succeeds,
\* the directory exists afterwards, nothing is created when it existed, and the
\* path is the one the first call returned.
C7_SamePathAlways ==
    (last.op = "get_results_directory" /\ last.name \in Registry) =>
        /\ last.exc = "none" /\ last.path \in dirs
        /\ last.first # NoCall => last.path = last.first.path

\* C7 as amended: every call of the accessor for a registered module
\* succeeds and the directory exists afterwards; a call made from the process
\* directory of the first call returns the first call's path and creates
\* nothing; and the process is in the starting directory whenever every
\* scope, step and tool invocation has ended.
C7_SamePathSameDirectory ==
    /\ (last.op = "get_results_directory" /\ last.name \in Registry) =>
          /\ last.exc = "none" /\ last.path \in dirs
          /\ (last.first # NoCall /\ last.first.at = last.at) =>
                (last.path = last.first.path /\ last.created = {})
          /\ (last.first # NoCall /\ last.first.at # last.at) =>
                last.path # last.first.path
    /\ stack = <<>> => cwd = StartDir

C7_Witness ==
    /\ last.op = "get_results_directory" /\ last.name \in Registry
    /\ last.first # NoCall /\ last.path = last.first.path /\ last.created = {}
    /\ stack = <<>> /\ files # {} /\ step_state = "Completed"
    /\ \E d \in dirs : d # last.path /\ Len(d) = Len(last.path) + 1

\* C8: a tool on the search path is returned in both modes; a tool that is not
\* raises SoftwareNotInstalled naming the tool in strict mode and returns None
\* in permissive mode; the answer is that of the search path at the call.
C8_ToolLocator ==
    last.op = "get_install_path" =>
        IF last.onpath
        THEN last.ret = PathTok(last.name) /\ last.exc = "none"
        ELSE IF last.raise_error
        THEN last.exc = "SoftwareNotInstalled" /\ last.about = last.name
        ELSE last.ret = NoneTok /\ last.exc = "none"

C8_Witness ==
    /\ last.op = "get_install_path" /\ ~last.raise_error
    /\ last.prev = "path" /\ last.ret = NoneTok /\ last.exc = "none"

\* The command line without the virtual-display wrapper.
Unwrapped(cmd) == IF cmd[1] = StrTok("xvfb-run") THEN Tail(cmd) ELSE cmd

\* C9: the command is <launcher> -np <cpu_count> <tool> <arguments...> when
\* use_mpi is set and the launcher is found, and <tool> <arguments...>
\* otherwise; without use_mpi the cpu count is not in it.
C9_MpiPrefix ==
    last.op = "command_line" =>
        /\ Unwrapped(last.cmd) =
              (IF last.with_mpi /\ last.mpi
               THEN <<PathTok("mpirun"), StrTok("-np"), NumTok(last.nb_cpu)>>
               ELSE <<>>) \o <<last.tool>> \o last.arguments
        /\ ~last.with_mpi =>
              \A i \in 1..Len(last.cmd) : last.cmd[i] # NumTok(last.nb_cpu)

C9_Witness ==
    /\ last.op = "command_line" /\ last.with_mpi /\ ~last.mpi
    /\ Len(last.arguments) = MaxArgs
    /\ last.cmd = <<last.tool>> \o last.arguments

\* C10 as stated: a run_software call whose wkdir exists opens exactly the
\* file <wkdir>/logfile_<tool>.log, wkdir being taken from the caller's
\* directory, and creates no other file.
C10_LogfileInWkdir ==
    (last.op = "run_software" /\ last.exists) =>
        LET logfile == Locate(last.D, Logfile(last.name, last.wkdir)) IN
        /\ last.opened = logfile
        /\ logfile \in FilePaths
        /\ last.created \subseteq {logfile}

\* C11: get_reasonable_nb_cpu returns ceil(n/4) for a host reporting n CPUs,
\* that is the least integer k with 4k >= n (1 for n in 1..4, 2 for n = 8), and
\* 1 when the CPU count is unknown; the result is an integer >= 1 and depends
\* on the count read by this call only, whatever the previous call read.
C11_CpuBudget ==
    (last.op = "get_reasonable_nb_cpu") =>
        /\ last.ret \in Nat /\ last.ret >= 1
        /\ (last.cpu_count = NoneTok) => last.ret = 1
        /\ (last.cpu_count # NoneTok) =>
              LET n == last.cpu_count.n IN
              /\ 4 * last.ret >= n /\ 4 * (last.ret - 1) < n
              /\ (n \in 1..4) => last.ret = 1
              /\ (n = 8) => last.ret = 2

\* A host with 8 CPUs, asked right after a host state with another count.
C11_Witness ==
    /\ last.op = "get_reasonable_nb_cpu"
    /\ last.cpu_count = NumTok(8) /\ last.ret = 2
    /\ last.prev # last.cpu_count

\* The tools that need a display, and the hosts that are POSIX systems.
DisplayTools == {"sumo", "dwfsumo"}
IsPosix(plat) == plat \in {"linux", "darwin"}

\* The command of the last run_software call starts with the wrapper.
Wrapped == last.cmd[1] = StrTok("xvfb-run")

\* The wrapper, when applied, comes before the MPI launcher prefix.
WrapperFirst ==
    (Wrapped /\ last.with_mpi /\ last.mpi) =>
        /\ last.cmd[2] = PathTok("mpirun")
        /\ \A i \in 2..Len(last.cmd) : last.cmd[i] # StrTok("xvfb-run")

\* C12 as stated: run_software puts the virtual-display wrapper in front of
\* the command if and only if the tool is sumo or dwfsumo and the host is a
\* POSIX system, and then the wrapper is the first element, before the MPI
\* launcher prefix.
C12_XvfbOnPosix ==
    (last.op = "command_line") =>
        /\ Wrapped <=> (last.name \in DisplayTools /\ IsPosix(last.platform))
        /\ WrapperFirst

\* C12 amended: the wrapper is applied if and only if the tool is sumo or
\* dwfsumo and the host platform is linux; on every other host, macOS
\* included, and for every other tool the command is left unwrapped; when
\* applied the wrapper is the first element, before the MPI launcher prefix.
C12_XvfbOnLinux ==
    (last.op = "command_line") =>
        /\ Wrapped <=> (last.name \in DisplayTools /\ last.platform = "linux")
        /\ WrapperFirst

\* sumo under MPI on a linux host: wrapper, then launcher, then the tool.
C12_Witness ==
    /\ last.op = "command_line" /\ last.name = "sumo" /\ last.platform = "linux"
    /\ last.with_mpi /\ last.mpi /\ Wrapped
    /\ last.cmd[2] = PathTok("mpirun")

\* C13 as stated: run_software on a tool the locator does not find raises no
\* SoftwareNotInstalled; the command is assembled with None where the tool's
\* path goes; the call fails at execution only (the TypeError of
\* subprocess.call), after the logfile has been created; and the process is
\* back in the directory it was in before the call.  Calls whose working
\* directory does not exist are left aside: they fail on entering the scope.
C13_MissingToolFailsAtExec ==
    (last.op = "run_software" /\ ~last.found /\ last.exists) =>
        /\ last.exc # "SoftwareNotInstalled"
        /\ last.cmd[Len(last.cmd) - Len(last.arguments)] = NoneTok
        /\ last.exc = "TypeError"
        /\ last.opened \in FilePaths
        /\ cwd = last.D

\* main of a run_module call is running.
InMain == stack # <<>> /\ (IF stack = <<>> THEN FALSE
                           ELSE Top.fn = "run_module" /\ Top.pc = "main")

\* This step ends a run_module call whose main raised: main itself raises, or
\* an error raised by a call nested in main passes through it.
MainFailed == InMain /\ stack' = Pop /\ (exc # "none" \/ exc' # "none")

\* This step invokes main: a run_module frame gets to its main.
InvokesMain ==
    /\ stack # <<>> /\ stack' # <<>> /\ Len(stack') = Len(stack)
    /\ stack'[Len(stack')] # stack[Len(stack)]
    /\ stack'[Len(stack')].fn = "run_module" /\ stack'[Len(stack')].pc = "main"

\* C14: run_module is fail-fast.  When main raises, the call ends with an
\* error, the same one when it was already in flight; the process is back in
\* the directory run_module was called from as the error leaves the call; and
\* main is only ever invoked by a call that has just started, with no error
\* in flight: there is no second invocation after a failure.
C14_FailFast ==
    [][ /\ MainFailed =>
              /\ exc' # "none"
              /\ (exc # "none") => exc' = exc
              /\ cwd' = Top.saved
              /\ last'.restores = 1 /\ last'.exc = exc'
        /\ InvokesMain => (Top.pc = "start" /\ exc = "none" /\ exc' = "none")
      ]_vars

\* main raised inside the working directory and the error has reached the
\* caller of run_module, which finds itself in the starting directory.
C14_Witness ==
    /\ last.op = "run_module" /\ last.how = "raised"
    /\ exc = "MainError" /\ last.exc = exc
    /\ stack = <<>> /\ last.D = StartDir /\ cwd = StartDir

\* A step's enclosed operation has run in a directory that is not its own.
RanElsewhere(t) ==
    threads.ran_in[t] # NoPath /\ threads.ran_in[t] # ThreadDir(t)

\* No scope is in progress and the process is not where it was before the
\* first of the scopes was entered.
Drifted ==
    /\ threads.active = <<>> /\ threads.base # NoPath
    /\ cwd # threads.base

\* C15: under strictly sequential, possibly nested, use of the scope every
\* enclosed operation runs in its own working directory and the process is
\* back in the directory it started from once the scopes have been left.
\* (That concurrent use loses both is the reachability of C15_Witness.)
C15_SequentialUseIsSafe ==
    (threads.mode = "sequential") =>
        /\ \A t \in Threads : ~RanElsewhere(t)
        /\ ~Drifted

\* A concurrent run: one step's operation ran in the other step's directory,
\* and after both scopes were left the process is in another directory than
\* before either was entered.
C15_Witness ==
    /\ threads.mode = "concurrent"
    /\ \E t, u \in Threads :
          t # u /\ threads.round[u] > 0 /\ threads.ran_in[t] = ThreadDir(u)
    /\ Drifted

====
